---------------------------- MODULE Spec2Model ----------------------------
(***************************************************************************)
(* A model of src/lib/youtube-likes.ts: the numeric-text parser, the       *)
(* identifier extractors, the like-count and channel-name locators, the    *)
(* page analyzer and the aggregator (mergeChannelData).                    *)
(*                                                                         *)
(* Strings are sequences of tokens.  A token is one character, or a fixed  *)
(* multi-character piece ("Infinity", "watch?v=", "likes", ...) whose      *)
(* characters are classified by the tables below, so that the regular      *)
(* expressions and the number parsing of the source are computed on the    *)
(* tokens the way the source computes them on characters.                  *)
(*                                                                         *)
(* A JavaScript number is a record [nan, inf, m, e]: NaN, Infinity, or the  *)
(* exact value m * 10^e with m not divisible by 10 (0 is m = 0, e = 0).    *)
(***************************************************************************)
EXTENDS Integers, Sequences, FiniteSets, TLC

VARIABLES
    text,       \* the argument handed to parseLikeCountText
    parsed,     \* <<>> before the call, <<its result>> after it
    url,        \* the URL of the page last analyzed
    page,       \* the page last analyzed: its DOM, title and global blobs
    outcome,    \* <<>>, or <<the ExtractionResult of the last analysis>>
    calls,      \* the functions the last analysis invoked, in order
    located,    \* <<>>, or <<what the two locators returned for page>>
    stored,     \* <<>>, or <<the ChannelData the caller holds>>
    existing,   \* the existingData argument of the last merge
    incoming,   \* the newData argument of the last merge
    merges,     \* the number of merges made so far
    clock,      \* Date.now()
    op          \* the last operation that acted

parseVars == <<text, parsed>>
pageVars == <<url, page, outcome, calls, located>>
mergeVars == <<stored, existing, incoming, merges>>
vars == <<text, parsed, url, page, outcome, calls, located,
          stored, existing, incoming, merges, clock, op>>

\* ------------------------------------------------------------ bounds

MaxTextLen == 4     \* tokens of a text handed to the parser alone
MaxUrlTail == 3     \* tokens of a URL after its host
MaxElems == 3       \* elements of a generated DOM, the root included
MaxMerges == 2      \* merges along one lineage
MaxClock == 2       \* readings of Date.now()
MaxHeld == 2        \* videos of an aggregate the caller holds from elsewhere

\* ------------------------------------------------------- JS numbers

RECURSIVE Pow10(_)
Pow10(n) == IF n = 0 THEN 1 ELSE 10 * Pow10(n - 1)

RECURSIVE Normalise(_, _)
Normalise(m, e) ==
    IF m = 0 THEN [nan |-> FALSE, inf |-> FALSE, m |-> 0, e |-> 0]
    ELSE IF m % 10 = 0 THEN Normalise(m \div 10, e + 1)
    ELSE [nan |-> FALSE, inf |-> FALSE, m |-> m, e |-> e]

Infinity == [nan |-> FALSE, inf |-> TRUE, m |-> 0, e |-> 0]

NaN == [nan |-> TRUE, inf |-> FALSE, m |-> 0, e |-> 0]

JSNum(n) == Normalise(n, 0)

IsFinite(x) == ~x.inf /\ ~x.nan

\* x > 0
IsPositive(x) == ~x.nan /\ (x.inf \/ x.m > 0)

\* x + y
JSAdd(x, y) ==
    IF x.nan \/ y.nan THEN NaN
    ELSE IF x.inf \/ y.inf THEN Infinity
    ELSE LET e0 == IF x.e < y.e THEN x.e ELSE y.e
         IN  Normalise(x.m * Pow10(x.e - e0) + y.m * Pow10(y.e - e0), e0)

\* --------------------------------------------------- character tables

DigitChars == {"0", "1", "2", "3", "4", "5", "6", "7", "8", "9"}

DigitVal(c) ==
    CASE c = "0" -> 0 [] c = "1" -> 1 [] c = "2" -> 2 [] c = "3" -> 3
      [] c = "4" -> 4 [] c = "5" -> 5 [] c = "6" -> 6 [] c = "7" -> 7
      [] c = "8" -> 8 [] c = "9" -> 9

\* Tokens made of letters, digits and '_' only: what \w keeps
LetterTokens ==
    {"K", "M", "B", "k", "g", "a", "r", "b", "e", "_", "Infinity",
     "like", "likes", "Like", "LIKE", "Dislike", "thumb", "Share", "views"}

WhitespaceTokens == {" "}

IsWordToken(c) == c \in DigitChars \/ c \in LetterTokens

\* the number of characters of a token
CharLen(c) ==
    CASE c = "Infinity" -> 8
      [] c \in {"like", "Like", "LIKE"} -> 4
      [] c \in {"likes", "thumb", "Share", "views"} -> 5
      [] c = "Dislike" -> 7
      [] OTHER -> 1

\* ----------------------------------------------------- sequence helpers

\* const x = v; Body(x): v is computed once, then Body reads the value
Const(v, Body(_)) == CHOOSE r \in {Body(x) : x \in {v}} : TRUE

Includes(s, c) == \E i \in 1..Len(s) : s[i] = c

\* String.prototype.replace(c, ''): the first occurrence only
RECURSIVE RemoveFirst(_, _)
RemoveFirst(s, c) ==
    IF s = <<>> THEN <<>>
    ELSE IF Head(s) = c THEN Tail(s)
    ELSE <<Head(s)>> \o RemoveFirst(Tail(s), c)

\* the longest prefix of digits
RECURSIVE DigitPrefix(_)
DigitPrefix(s) ==
    IF s # <<>> /\ Head(s) \in DigitChars
    THEN <<Head(s)>> \o DigitPrefix(Tail(s))
    ELSE <<>>

RECURSIVE DigitsValue(_)
DigitsValue(ds) ==
    IF ds = <<>> THEN 0
    ELSE 10 * DigitsValue(SubSeq(ds, 1, Len(ds) - 1)) + DigitVal(ds[Len(ds)])

Drop(s, n) == SubSeq(s, n + 1, Len(s))

\* the sequences over S of length at most n
RECURSIVE SeqsUpTo(_, _)
SeqsUpTo(S, n) ==
    IF n = 0 THEN {<<>>}
    ELSE LET shorter == SeqsUpTo(S, n - 1)
         IN  shorter \cup {Append(s, c) : s \in shorter, c \in S}

\* --------------------------------------------------- parseFloat, parseInt

\* parseFloat on a cleaned text: "Infinity", or digits [. digits], or . digits,
\* as the longest prefix; NaN when there is no such prefix.  The value is
\* m / 10^d.  (The alphabet holds no exponent part.)
parseFloat(s) ==
    IF s # <<>> /\ Head(s) = "Infinity"
    THEN [kind |-> "inf", m |-> 0, d |-> 0]
    ELSE LET ip   == DigitPrefix(s)
             rest == Drop(s, Len(ip))
             fp   == IF rest # <<>> /\ Head(rest) = "."
                     THEN DigitPrefix(Tail(rest)) ELSE <<>>
         IN  IF Len(ip) + Len(fp) = 0
             THEN [kind |-> "nan", m |-> 0, d |-> 0]
             ELSE [kind |-> "num", m |-> DigitsValue(ip \o fp), d |-> Len(fp)]

\* parseInt(s, 10) on a cleaned text: the leading digits, NaN when there are none
parseInt(s) ==
    LET ip == DigitPrefix(s)
    IN  IF ip = <<>> THEN [kind |-> "nan", m |-> 0, d |-> 0]
        ELSE [kind |-> "num", m |-> DigitsValue(ip), d |-> 0]

\* Math.round(num * 10^p) for num = m / 10^d, halves rounded up
RoundScaled(num, p) ==
    IF num.kind = "inf" THEN Infinity
    ELSE IF p >= num.d THEN Normalise(num.m, p - num.d)
    ELSE LET q == Pow10(num.d - p)
         IN  JSNum((2 * num.m + q) \div (2 * q))

\* ------------------------------------------------ parseLikeCountText

\* text.replace(/[^\w.]/g, '')
RECURSIVE CleanText(_)
CleanText(t) ==
    IF t = <<>> THEN <<>>
    ELSE IF IsWordToken(Head(t)) \/ Head(t) = "."
         THEN <<Head(t)>> \o CleanText(Tail(t))
         ELSE CleanText(Tail(t))

SuffixBranch(cleanText, suffix, p) ==
    Const(parseFloat(RemoveFirst(cleanText, suffix)), LAMBDA num :
        IF num.kind = "nan" THEN JSNum(0) ELSE RoundScaled(num, p))

parseLikeCountText(t) ==
    Const(CleanText(t), LAMBDA cleanText :
        IF Includes(cleanText, "K") THEN SuffixBranch(cleanText, "K", 3)
        ELSE IF Includes(cleanText, "M") THEN SuffixBranch(cleanText, "M", 6)
        ELSE IF Includes(cleanText, "B") THEN SuffixBranch(cleanText, "B", 9)
        ELSE Const(parseInt(cleanText), LAMBDA number :
                IF number.kind = "nan" THEN JSNum(0) ELSE JSNum(number.m)))

\* ----------------------------------------------------------- URLs

\* A URL string is a sequence of tokens; Atoms splits the tokens at the
\* characters the two regular expressions and the URL parser look at.
SchemeToken == "https://"

HostTokens == {"www.youtube.com/", "youtu.be/", "example.com/"}

TailTokens ==
    {"watch?v=", "youtu.be/", "channel/", "c/", "@", "a", "/", "&", "?", "#"}

AtomsOf(tok) ==
    CASE tok = "www.youtube.com/" -> <<"www.youtube.com", "/">>
      [] tok = "youtu.be/"        -> <<"youtu.be", "/">>
      [] tok = "example.com/"     -> <<"example.com", "/">>
      [] tok = "watch?v="         -> <<"watch", "?", "v=">>
      [] tok = "channel/"         -> <<"channel", "/">>
      [] tok = "c/"               -> <<"c", "/">>
      [] OTHER                    -> <<tok>>

RECURSIVE Atoms(_)
Atoms(u) == IF u = <<>> THEN <<>> ELSE AtomsOf(Head(u)) \o Atoms(Tail(u))

\* the longest prefix of s holding no atom of Stop
RECURSIVE RunUntil(_, _)
RunUntil(s, Stop) ==
    IF s = <<>> \/ Head(s) \in Stop THEN <<>>
    ELSE <<Head(s)>> \o RunUntil(Tail(s), Stop)

HasAt(s, i, pat) ==
    /\ i + Len(pat) - 1 <= Len(s)
    /\ \A k \in 1..Len(pat) : s[i + k - 1] = pat[k]

\* "www.youtube.com" ends with "youtube.com"
WatchPattern == <<"www.youtube.com", "/", "watch", "?", "v=">>
ShortPattern == <<"youtu.be", "/">>

\* ([^&\n?#]+) from position i
IdCapture(s, i) == RunUntil(Drop(s, i - 1), {"&", "?", "#"})

\* where /(?:youtube\.com\/watch\?v=|youtu\.be\/)([^&\n?#]+)/ matches at i,
\* the capture; <<>> where it does not
VideoIdMatchAt(s, i) ==
    IF HasAt(s, i, WatchPattern) THEN IdCapture(s, i + Len(WatchPattern))
    ELSE IF HasAt(s, i, ShortPattern) THEN IdCapture(s, i + Len(ShortPattern))
    ELSE <<>>

\* url.match(...): the leftmost match; <<>> is null
extractVideoId(u) ==
    Const(Atoms(u), LAMBDA s :
        LET hits == {i \in 1..Len(s) : VideoIdMatchAt(s, i) # <<>>}
        IN  IF hits = {} THEN <<>>
            ELSE VideoIdMatchAt(s, CHOOSE i \in hits : \A j \in hits : i <= j))

\* new URL(url) throws a TypeError unless the string has a scheme
UrlParses(u) == u # <<>> /\ Head(u) = SchemeToken

\* urlObj.pathname: from the '/' after the host up to the query or fragment
Pathname(u) ==
    LET s == Atoms(u)
    IN  RunUntil(Drop(s, 2), {"?", "#"})

\* pathname.match(/^\/<prefix>([^\/]+)/)
PathCapture(path, prefix) ==
    IF HasAt(path, 1, prefix) THEN RunUntil(Drop(path, Len(prefix)), {"/"})
    ELSE <<>>

ChannelPatterns == << <<"/", "channel", "/">>, <<"/", "c", "/">>, <<"/", "@">> >>

\* the result for a URL that parses: the first pattern that matches; <<>> is null
extractChannelId(u) ==
    Const(Pathname(u), LAMBDA path :
        LET hits == {k \in 1..Len(ChannelPatterns) :
                        PathCapture(path, ChannelPatterns[k]) # <<>>}
        IN  IF hits = {} THEN <<>>
            ELSE PathCapture(path,
                    ChannelPatterns[CHOOSE k \in hits : \A j \in hits : k <= j]))

\* ---------------------------------------------- the global state blobs

\* A value of window.ytInitialData, window.ytcfg or
\* window.ytInitialPlayerResponse: [t, v] with v a sequence: the tokens of a
\* string, the <<key, value>> entries of an object, the items of an array.
Undefined == [t |-> "undef", v |-> <<>>]
Str(tokens) == [t |-> "str", v |-> tokens]
Obj(entries) == [t |-> "obj", v |-> entries]
Arr(items) == [t |-> "arr", v |-> items]
Num(n) == [t |-> "num", v |-> <<n>>]

\* if (x), x || y
Truthy(x) ==
    \/ x.t \in {"obj", "arr"}
    \/ x.t = "str" /\ x.v # <<>>
    \/ x.t = "num" /\ x.v[1] # 0

\* x?.key
Get(x, key) ==
    IF x.t = "obj" /\ \E i \in 1..Len(x.v) : x.v[i][1] = key
    THEN x.v[CHOOSE i \in 1..Len(x.v) :
                /\ x.v[i][1] = key
                /\ \A j \in 1..Len(x.v) : x.v[j][1] = key => i <= j][2]
    ELSE Undefined

\* x?.[0]
First(x) == IF x.t = "arr" /\ x.v # <<>> THEN x.v[1] ELSE Undefined

RECURSIVE GetPath(_, _)
GetPath(x, keys) ==
    IF keys = <<>> THEN x ELSE GetPath(Get(x, Head(keys)), Tail(keys))

ContentsPath ==
    <<"contents", "twoColumnWatchNextResults", "results", "results", "contents">>

\* for (const content of contents): the items of an array; a string's
\* characters hold no property; any other truthy value is not iterable and
\* the loop throws into the function's catch
Iterated(contents) == IF contents.t = "arr" THEN contents.v ELSE <<>>

\* videoInfo?.videoActions?...?.toggleButtonRenderer?.defaultText?.simpleText
LikeTextOf(content) ==
    GetPath(
        First(GetPath(Get(content, "videoPrimaryInfoRenderer"),
                      <<"videoActions", "menuRenderer", "topLevelButtons">>)),
        <<"segmentedLikeDislikeButtonRenderer", "likeButton",
          "toggleButtonRenderer", "defaultText", "simpleText">>)

\* the loop of extractFromYtInitialData over contents[i..]; a truthy
\* simpleText that is no string makes text.replace throw into the catch
RECURSIVE KnownPathLoop(_)
KnownPathLoop(items) ==
    IF items = <<>> THEN <<>>
    ELSE LET likeText == LikeTextOf(Head(items))
             found    == /\ Truthy(Get(Head(items), "videoPrimaryInfoRenderer"))
                         /\ Truthy(likeText)
         IN  IF found /\ likeText.t # "str" THEN <<>>
             ELSE IF found /\ IsPositive(parseLikeCountText(likeText.v))
             THEN <<parseLikeCountText(likeText.v)>>
             ELSE KnownPathLoop(Tail(items))

\* <<likeCount>>, or <<>> for null
extractFromYtInitialData(data) ==
    KnownPathLoop(Iterated(GetPath(data, ContentsPath)))

\* key.toLowerCase().includes('like')
KeyHasLike(key) == key \in {"likeCount", "likeCountText", "likes", "Likes", "likeButton",
                            "segmentedLikeDislikeButtonRenderer"}

\* Object.entries(obj): an array's keys are its indices
EntriesOf(x) ==
    IF x.t = "obj" THEN x.v
    ELSE IF x.t = "arr" THEN [i \in 1..Len(x.v) |-> <<"index", x.v[i]>>]
    ELSE <<>>

RECURSIVE searchForLikeCount(_)
RECURSIVE SearchEntries(_)
SearchEntries(entries) ==
    IF entries = <<>> THEN <<>>
    ELSE LET key   == Head(entries)[1]
             value == Head(entries)[2]
             own   == IF KeyHasLike(key) /\ value.t = "str"
                         /\ IsPositive(parseLikeCountText(value.v))
                      THEN <<parseLikeCountText(value.v)>> ELSE <<>>
             deep  == IF own = <<>> /\ value.t \in {"obj", "arr"}
                      THEN searchForLikeCount(value) ELSE <<>>
         IN  IF own # <<>> THEN own
             ELSE IF deep # <<>> THEN deep
             ELSE SearchEntries(Tail(entries))

searchForLikeCount(obj) == SearchEntries(EntriesOf(obj))

extractFromYtInitialDataAlternative(data) == searchForLikeCount(data)

\* parseInt(likeCount, 10) of a blob's string field
ParseIntField(x) ==
    IF x.t = "num" THEN JSNum(x.v[1])
    ELSE IF x.t # "str" THEN NaN
    ELSE LET n == parseInt(x.v)
         IN  IF n.kind = "nan" THEN NaN ELSE JSNum(n.m)

extractFromYtcfg(cfg) ==
    LET data      == Get(cfg, "data_")
        likeCount == IF Truthy(Get(data, "likeCount")) THEN Get(data, "likeCount")
                     ELSE GetPath(data, <<"videoDetails", "likeCount">>)
    IN  IF Truthy(data) /\ Truthy(likeCount)
        THEN <<ParseIntField(likeCount)>> ELSE <<>>

extractFromPlayerResponse(response) ==
    LET videoDetails == Get(response, "videoDetails")
        likeCount    == Get(videoDetails, "likeCount")
    IN  IF Truthy(videoDetails) /\ Truthy(likeCount)
        THEN <<ParseIntField(likeCount)>> ELSE <<>>

OwnerTextOf(content) ==
    Get(First(GetPath(content, <<"videoSecondaryInfoRenderer", "owner",
                                  "videoOwnerRenderer", "title", "runs">>)),
        "text")

RECURSIVE OwnerLoop(_)
OwnerLoop(items) ==
    IF items = <<>> THEN <<>>
    ELSE IF Truthy(OwnerTextOf(Head(items))) THEN OwnerTextOf(Head(items)).v
    ELSE OwnerLoop(Tail(items))

\* the channel name, or <<>> for null
extractChannelNameFromYtInitialData(data) ==
    OwnerLoop(Iterated(GetPath(data, ContentsPath)))

\* ------------------------------------------------------------ the DOM

\* document: the elements in document order, element 1 the root.  An element
\* is [parent, button, aria, own, sel]: its parent's index (0 for the root),
\* whether it is a button or has role="button", its aria-label (<<>> when it
\* has none), the text node it starts with, and the channel-name selectors
\* (by index) that match it.
ButtonScanLimit == 20
CandidateLimit == 5
ShortTextLength == 10

RECURSIVE IsAncestor(_, _, _)
IsAncestor(dom, a, i) ==
    /\ i # 0
    /\ dom[i].parent # 0
    /\ (dom[i].parent = a \/ IsAncestor(dom, a, dom[i].parent))

RECURSIVE ConcatOwn(_, _, _)
ConcatOwn(dom, a, i) ==
    IF i > Len(dom) THEN <<>>
    ELSE (IF i = a \/ IsAncestor(dom, a, i) THEN dom[i].own ELSE <<>>)
         \o ConcatOwn(dom, a, i + 1)

\* element.textContent
TextContent(dom, a) == ConcatOwn(dom, a, a)

RECURSIVE TrimLeft(_)
TrimLeft(t) ==
    IF t # <<>> /\ Head(t) \in WhitespaceTokens THEN TrimLeft(Tail(t)) ELSE t

RECURSIVE TrimRight(_)
TrimRight(t) ==
    IF t # <<>> /\ t[Len(t)] \in WhitespaceTokens
    THEN TrimRight(SubSeq(t, 1, Len(t) - 1)) ELSE t

\* text.trim()
Trim(t) == TrimRight(TrimLeft(t))

\* text.match(/^[\d.,]+[KMB]?$/)
MatchesCount(t) ==
    LET body == IF t # <<>> /\ t[Len(t)] \in {"K", "M", "B"}
                THEN SubSeq(t, 1, Len(t) - 1) ELSE t
    IN  /\ body # <<>>
        /\ \A i \in 1..Len(body) : body[i] \in DigitChars \cup {".", ","}

\* [aria-label*="like"], [aria-label*="Like"]
HasLikeCaseSensitive(t) ==
    \E i \in 1..Len(t) : t[i] \in {"like", "likes", "Like", "Dislike"}

\* text.toLowerCase().includes('like')
HasLike(t) ==
    \E i \in 1..Len(t) : t[i] \in {"like", "likes", "Like", "LIKE", "Dislike"}

\* text.toLowerCase().includes('thumb')
HasThumb(t) == \E i \in 1..Len(t) : t[i] = "thumb"

RECURSIVE TextLength(_)
TextLength(t) == IF t = <<>> THEN 0 ELSE CharLen(Head(t)) + TextLength(Tail(t))

\* the first text of texts that parses to a count > 0, as <<count>>
RECURSIVE FirstPositive(_)
FirstPositive(texts) ==
    IF texts = <<>> THEN <<>>
    ELSE Const(parseLikeCountText(Head(texts)), LAMBDA count :
            IF IsPositive(count) THEN <<count>>
            ELSE FirstPositive(Tail(texts)))

\* a set of indices as a sequence in document order, as querySelectorAll
\* lists the elements it selects
RECURSIVE InOrder(_)
InOrder(S) ==
    IF S = {} THEN <<>>
    ELSE LET least == CHOOSE i \in S : \A j \in S : i <= j
         IN  <<least>> \o InOrder(S \ {least})

\* the members of a set of videos in some order
RECURSIVE SetToSeq(_)
SetToSeq(S) ==
    IF S = {} THEN <<>>
    ELSE LET x == CHOOSE y \in S : TRUE IN <<x>> \o SetToSeq(S \ {x})

Take(s, n) == SubSeq(s, 1, IF Len(s) < n THEN Len(s) ELSE n)

\* Method 1: elements whose aria-label contains "like", with a count as text
DomMethod1(dom) ==
    LET likeElements == InOrder({i \in 1..Len(dom) :
                                    HasLikeCaseSensitive(dom[i].aria)})
        usable(i, t) == /\ t # <<>>
                        /\ HasLike(dom[i].aria)
                        /\ MatchesCount(t)
        textAt(i) == Const(Trim(TextContent(dom, i)), LAMBDA t :
                        IF usable(i, t) THEN t ELSE <<>>)
    IN  Const(likeElements, LAMBDA es :
            Const([k \in 1..Len(es) |-> textAt(es[k])], FirstPositive))

\* Method 2: the descendants of the first 20 buttons whose label has "like"
DomMethod2(dom) ==
    LET allButtons == InOrder({i \in 1..Len(dom) : dom[i].button})
        scanned    == Take(allButtons, ButtonScanLimit)
        textAt(i) == Const(Trim(TextContent(dom, i)), LAMBDA t :
                        IF MatchesCount(t) THEN t ELSE <<>>)
        childTexts(b) ==
            Const(InOrder({j \in 1..Len(dom) : IsAncestor(dom, b, j)}),
                  LAMBDA children :
                      [k \in 1..Len(children) |-> textAt(children[k])])
        found(b) == IF HasLike(dom[b].aria)
                    THEN Const(childTexts(b), FirstPositive) ELSE <<>>
    IN  Const(scanned, LAMBDA bs :
            Const([k \in 1..Len(bs) |-> found(bs[k])], LAMBDA perButton :
                LET hits == {k \in 1..Len(bs) : perButton[k] # <<>>}
                IN  IF hits = {} THEN <<>>
                    ELSE perButton[CHOOSE k \in hits : \A j \in hits : k <= j]))

\* Method 3: short counts whose parent's text mentions "like" or "thumb"
DomMethod3(dom) ==
    LET parentMentions(i) ==
            Const(TextContent(dom, dom[i].parent), LAMBDA parentText :
                HasLike(parentText) \/ HasThumb(parentText))
        candidate(i) ==
            Const(Trim(TextContent(dom, i)), LAMBDA t :
                /\ MatchesCount(t)
                /\ TextLength(t) < ShortTextLength
                /\ dom[i].parent # 0
                /\ parentMentions(i))
        potentialLikeElements == InOrder({i \in 1..Len(dom) : candidate(i)})
    IN  Const(Take(potentialLikeElements, CandidateLimit), LAMBDA scanned :
            Const([k \in 1..Len(scanned) |->
                      Trim(TextContent(dom, scanned[k]))], FirstPositive))

\* the querySelectorAll calls of the two locators, each of which may throw
LikeElementsQuery == "likeElements"
AllButtonsQuery == "allButtons"
AllElementsQuery == "allElements"
SelectorsQuery == "selectors"

\* the one catch of lines 265-268 around the three methods
DomCaught == JSNum(0)

\* document is [dom, throws, ...]: a query of document.throws throws when it
\* is made, and the throw leaves the try of lines 177-264
extractLikeCountFromDOM(document) ==
    IF LikeElementsQuery \in document.throws THEN DomCaught
    ELSE Const(DomMethod1(document.dom), LAMBDA first :
        IF first # <<>> THEN first[1]
        ELSE IF AllButtonsQuery \in document.throws THEN DomCaught
        ELSE Const(DomMethod2(document.dom), LAMBDA second :
            IF second # <<>> THEN second[1]
            ELSE IF AllElementsQuery \in document.throws THEN DomCaught
            ELSE Const(DomMethod3(document.dom), LAMBDA third :
                IF third # <<>> THEN third[1] ELSE JSNum(0))))

\* The window and script inspection of lines 29-63 only logs.
extractLikeCount(p) == extractLikeCountFromDOM(p)

\* ------------------------------------------------- extractChannelName

NumSelectors == 8

\* the first element matching selector k with non-empty trimmed text
SelectorText(dom, k) ==
    Const(InOrder({i \in 1..Len(dom) :
                      k \in dom[i].sel /\ Trim(TextContent(dom, i)) # <<>>}),
          LAMBDA elements :
              IF elements = <<>> THEN <<>>
              ELSE Trim(TextContent(dom, elements[1])))

\* the channel name, or <<>> for null
extractChannelName(p) ==
    LET fromData == IF Truthy(p.ytInitialData)
                    THEN extractChannelNameFromYtInitialData(p.ytInitialData)
                    ELSE <<>>
        author   == GetPath(p.ytInitialPlayerResponse, <<"videoDetails", "author">>)
        bySelector == [k \in 1..NumSelectors |-> SelectorText(p.dom, k)]
    IN  Const(fromData, LAMBDA name :
            IF name # <<>> THEN name
            ELSE IF Truthy(p.ytInitialPlayerResponse) /\ Truthy(author)
            THEN author.v
            ELSE IF SelectorsQuery \in p.throws THEN <<>>
            ELSE Const(bySelector, LAMBDA texts :
                LET hits == {k \in 1..NumSelectors : texts[k] # <<>>}
                IN  IF hits = {} THEN <<>>
                    ELSE texts[CHOOSE k \in hits : \A j \in hits : k <= j]))

\* -------------------------------------------------- analyzeYouTubePage

Success(channelData) ==
    [success |-> TRUE, data |-> <<channelData>>, error |-> <<>>, escaped |-> FALSE]

Failure(message) ==
    [success |-> FALSE, data |-> <<>>, error |-> <<message>>, escaped |-> FALSE]

NotAVideoPage == "Not a video page"

\* the message of the TypeError thrown by new URL(url)
InvalidUrl == "Invalid URL"

UnknownChannel == <<"Unknown Channel">>

YouTubeSuffix == " - YouTube"

\* an analyzer without the early return of lines 406-409
NeverNotVideoPage(videoId) == FALSE

\* if (!videoId)
IsNotVideoPage(videoId) == videoId = <<>>

\* an analyzer that keys every aggregate by its video
ChannelIdIsVideoId(u, videoId) == videoId

\* extractChannelId(url) || videoId
ChannelIdOr(u, videoId) ==
    Const(extractChannelId(u), LAMBDA channelId :
        IF channelId # <<>> THEN channelId ELSE videoId)

\* an analyzer without the catch of lines 438-441: the fault reaches the caller
Rethrown(message) ==
    [success |-> FALSE, data |-> <<>>, error |-> <<>>, escaped |-> TRUE]

\* catch (error) { return { success: false, error: error.message } }
Caught(message) == Failure(message)

\* [result, calls]: the ExtractionResult, and the functions invoked on the way
analyzeYouTubePage(p, u, now) ==
    Const(extractVideoId(u), LAMBDA videoId :
        IF IsNotVideoPage(videoId)
        THEN [result |-> Failure(NotAVideoPage), calls |-> <<"extractVideoId">>]
        ELSE
        LET reached == <<"extractVideoId", "extractLikeCount",
                         "extractChannelName", "extractChannelId">>
        IN  IF ~UrlParses(u)
            THEN [result |-> Caught(InvalidUrl), calls |-> reached]
            ELSE
            Const(extractLikeCount(p), LAMBDA likeCount :
            Const(extractChannelName(p), LAMBDA channelName :
            LET videoData == [id        |-> videoId,
                              title     |-> RemoveFirst(p.title, YouTubeSuffix),
                              videoUrl  |-> u,
                              likeCount |-> likeCount]
                channelData ==
                    [channelId   |-> ChannelIdOr(u, videoId),
                     channelName |-> IF channelName # <<>> THEN channelName
                                     ELSE UnknownChannel,
                     totalLikes  |-> likeCount,
                     videoCount  |-> 1,
                     videos      |-> <<videoData>>,
                     lastUpdated |-> now]
            IN  [result |-> Success(channelData), calls |-> reached])))

\* ---------------------------------------------------- mergeChannelData

RECURSIVE calculateTotalLikes(_)
calculateTotalLikes(videos) ==
    IF videos = <<>> THEN JSNum(0)
    ELSE JSAdd(calculateTotalLikes(SubSeq(videos, 1, Len(videos) - 1)),
               videos[Len(videos)].likeCount)

\* a map whose first write wins
MapSetKeepsOld(entries, video) ==
    IF \E i \in 1..Len(entries) : entries[i].id = video.id
    THEN entries ELSE Append(entries, video)

\* a list in place of the map: every video is appended
MapSetAppends(entries, video) == Append(entries, video)

\* Map.prototype.set on the map's entries in insertion order: a key already
\* there keeps its place and takes the new value
MapSet(entries, video) ==
    IF \E i \in 1..Len(entries) : entries[i].id = video.id
    THEN [i \in 1..Len(entries) |->
             IF entries[i].id = video.id THEN video ELSE entries[i]]
    ELSE Append(entries, video)

RECURSIVE MapSetAll(_, _)
MapSetAll(entries, videos) ==
    IF videos = <<>> THEN entries
    ELSE MapSetAll(MapSet(entries, Head(videos)), Tail(videos))

\* lines 445-451: the existing videos, each incoming video set over them
MergedVideos(existingData, newData) ==
    MapSetAll(MapSetAll(<<>>, existingData.videos), newData.videos)

\* a merge that adds the incoming totals to the existing ones
MergeCarryingTotals(existingData, newData, now) ==
    Const(MergedVideos(existingData, newData), LAMBDA allVideos :
        [channelId   |-> existingData.channelId,
         channelName |-> IF newData.channelName # <<>> THEN newData.channelName
                         ELSE existingData.channelName,
         totalLikes  |-> JSAdd(existingData.totalLikes, newData.totalLikes),
         videoCount  |-> existingData.videoCount + newData.videoCount,
         videos      |-> allVideos,
         lastUpdated |-> now])

\* a merge that keeps the incoming aggregate's time stamp
MergeKeepingStamp(existingData, newData, now) ==
    Const(MergedVideos(existingData, newData), LAMBDA allVideos :
        [channelId   |-> existingData.channelId,
         channelName |-> IF newData.channelName # <<>> THEN newData.channelName
                         ELSE existingData.channelName,
         totalLikes  |-> calculateTotalLikes(allVideos),
         videoCount  |-> Len(allVideos),
         videos      |-> allVideos,
         lastUpdated |-> newData.lastUpdated])

mergeChannelData(existingData, newData, now) ==
    Const(MergedVideos(existingData, newData), LAMBDA allVideos :
        [channelId   |-> existingData.channelId,
         channelName |-> IF newData.channelName # <<>> THEN newData.channelName
                         ELSE existingData.channelName,
         totalLikes  |-> calculateTotalLikes(allVideos),
         videoCount  |-> Len(allVideos),
         videos      |-> allVideos,
         lastUpdated |-> now])

\* ------------------------------------------------------------- pages

Element(parent, button, aria, own, sel) ==
    [parent |-> parent, button |-> button, aria |-> aria, own |-> own, sel |-> sel]

PlainRoot == Element(0, FALSE, <<>>, <<>>, {})

VideoTitle == <<"Video", YouTubeSuffix>>

Page(dom, data, cfg, response) ==
    [dom |-> dom, title |-> VideoTitle, ytInitialData |-> data, ytcfg |-> cfg,
     ytInitialPlayerResponse |-> response, throws |-> {}]

\* no blob, nothing to find in the DOM
EmptyPage == Page(<<PlainRoot>>, Undefined, Undefined, Undefined)

RECURSIVE Nest(_, _)
Nest(keys, leaf) ==
    IF keys = <<>> THEN leaf ELSE Obj(<< <<Head(keys), Nest(Tail(keys), leaf)>> >>)

\* ytInitialData of a watch page: the like button's text and the owner's name
WatchData(likeText, ownerText) ==
    Nest(ContentsPath,
         Arr(<< Nest(<<"videoPrimaryInfoRenderer", "videoActions", "menuRenderer",
                       "topLevelButtons">>,
                     Arr(<< Nest(<<"segmentedLikeDislikeButtonRenderer",
                                   "likeButton", "toggleButtonRenderer",
                                   "defaultText", "simpleText">>, likeText) >>)),
                Nest(<<"videoSecondaryInfoRenderer", "owner", "videoOwnerRenderer",
                       "title", "runs">>,
                     Arr(<< Obj(<< <<"text", ownerText>> >>) >>)) >>))

InitialDatas ==
    { Undefined,
      WatchData(Str(<<"3", ".", "4", "K">>), Str(<<"Alice">>)),
      WatchData(Str(<<"g">>), Undefined),
      Nest(<<"engagement", "likeCountText">>, Str(<<"7">>)) }

Configs == { Undefined, Nest(<<"data_", "likeCount">>, Str(<<"8">>)) }

PlayerResponses ==
    { Undefined,
      Obj(<< <<"videoDetails",
               Obj(<< <<"likeCount", Str(<<"9">>)>>,
                      <<"author", Str(<<"Bob">>)>> >>)>> >>) }

LikesLabel == <<"1", ",", "2", "3", "4", " ", "likes">>

\* what a generated element may be, its parent left open
Kind(button, aria, own, sel) ==
    [button |-> button, aria |-> aria, own |-> own, sel |-> sel]

ElementKinds ==
    { Kind(FALSE, <<>>, <<>>, {}),
      Kind(FALSE, <<>>, <<"1", ".", "2", "K">>, {}),
      Kind(FALSE, <<>>, <<" ", "5">>, {}),
      Kind(FALSE, <<>>, <<"likes">>, {}),
      Kind(FALSE, LikesLabel, <<" ", "5">>, {}),
      Kind(TRUE, LikesLabel, <<>>, {}),
      Kind(TRUE, LikesLabel, <<"1", ".", "2", "K">>, {}),
      Kind(TRUE, <<"LIKE">>, <<>>, {}),
      Kind(FALSE, <<>>, <<"Carol">>, {1, 3}),
      Kind(FALSE, <<>>, <<"Dave">>, {8}) }

\* the last element and its ancestors: where the next element in document
\* order may hang
RECURSIVE AncestorsOrSelf(_, _)
AncestorsOrSelf(dom, i) ==
    IF i = 0 THEN {} ELSE {i} \cup AncestorsOrSelf(dom, dom[i].parent)

RECURSIVE DomsOfSize(_)
DomsOfSize(n) ==
    IF n = 1 THEN {<<PlainRoot>>}
    ELSE { Append(d, Element(par, k.button, k.aria, k.own, k.sel)) :
             d \in DomsOfSize(n - 1),
             k \in ElementKinds,
             par \in 1..(n - 1) }

WellFormedDom(d) ==
    \A i \in 2..Len(d) : d[i].parent \in AncestorsOrSelf(d, i - 1)

GeneratedDoms ==
    UNION { {d \in DomsOfSize(n) : WellFormedDom(d)} : n \in 1..MaxElems }

LocatePages ==
    { Page(d, data, cfg, response) :
        d \in GeneratedDoms, data \in InitialDatas,
        cfg \in Configs, response \in PlayerResponses }

\* the page of the documented end-to-end scenario: no blob, an element with
\* accessible label "1,234 likes" and text "1.2K"
ScenarioPage ==
    Page(<<PlainRoot, Element(1, TRUE, LikesLabel, <<"1", ".", "2", "K">>, {})>>,
         Undefined, Undefined, Undefined)

\* blobs that hold a like count and a channel name, and a DOM that holds others
BlobPage ==
    Page(<<PlainRoot,
           Element(1, TRUE, LikesLabel, <<" ", "5">>, {}),
           Element(1, FALSE, <<>>, <<"Carol">>, {1, 3})>>,
         WatchData(Str(<<"3", ".", "4", "K">>), Str(<<"Alice">>)),
         Undefined, Undefined)

AnalyzePages == {EmptyPage, ScenarioPage, BlobPage}

AllUrls ==
    { prefix \o <<host>> \o tail :
        prefix \in {<<>>, <<SchemeToken>>},
        host \in HostTokens,
        tail \in SeqsUpTo(TailTokens, MaxUrlTail) }

\* --------------------------------------------------------- operations

\* the caller analyzes the page it is on
Analyzed(u, p, r) ==
    /\ url' = u
    /\ page' = p
    /\ outcome' = <<r.result>>
    /\ calls' = r.calls
    /\ UNCHANGED <<parseVars, located, clock>>

AnalyzePage(u, p) ==
    /\ Analyzed(u, p, analyzeYouTubePage(p, u, clock))
    /\ op' = "analyze"
    /\ UNCHANGED mergeVars

\* the two locators alone, on the page at hand
Locate ==
    /\ located = <<>>
    /\ located' = <<[likeCount   |-> extractLikeCount(page),
                     channelName |-> extractChannelName(page)]>>
    /\ op' = "locate"
    /\ UNCHANGED <<parseVars, url, page, outcome, calls, mergeVars, clock>>

\* ------------------------------------------- the analyzer on every URL

InitAnalyze ==
    /\ url \in AllUrls
    /\ page \in AnalyzePages
    /\ outcome = <<>> /\ calls = <<>> /\ located = <<>>
    /\ text = <<>> /\ parsed = <<>>
    /\ stored = <<>> /\ existing = <<>> /\ incoming = <<>> /\ merges = 0
    /\ clock = 0
    /\ op = "init"

AnalyzeThis == op = "init" /\ AnalyzePage(url, page)

NextAnalyze == AnalyzeThis

SpecAnalyze == InitAnalyze /\ [][NextAnalyze]_vars

\* ------------------------------------------ the locators on every page

InitLocate ==
    /\ page \in LocatePages
    /\ url = <<>>
    /\ outcome = <<>> /\ calls = <<>> /\ located = <<>>
    /\ text = <<>> /\ parsed = <<>>
    /\ stored = <<>> /\ existing = <<>> /\ incoming = <<>> /\ merges = 0
    /\ clock = 0
    /\ op = "init"

NextLocate == Locate

SpecLocate == InitLocate /\ [][NextLocate]_vars

\* ------------------------------- the locators on documents that throw

\* ytInitialData whose contents is an object: for...of throws on it
BrokenData == Nest(ContentsPath, Obj(<<>>))

FaultPoints ==
    {LikeElementsQuery, AllButtonsQuery, AllElementsQuery, SelectorsQuery}

Faulty(p, throws) == [p EXCEPT !.throws = throws]

FaultBase ==
    { Page(d, Undefined, Undefined, Undefined) : d \in GeneratedDoms }
    \cup
    { Page(BlobPage.dom, data, Undefined, response) :
        data \in InitialDatas \cup {BrokenData},
        response \in PlayerResponses }

FaultyPages == { Faulty(p, throws) : p \in FaultBase, throws \in SUBSET FaultPoints }

InitFault ==
    /\ page \in FaultyPages
    /\ url = <<>>
    /\ outcome = <<>> /\ calls = <<>> /\ located = <<>>
    /\ text = <<>> /\ parsed = <<>>
    /\ stored = <<>> /\ existing = <<>> /\ incoming = <<>> /\ merges = 0
    /\ clock = 0
    /\ op = "init"

NextFault == Locate

SpecFault == InitFault /\ [][NextFault]_vars

\* ---------------------------- one aggregate, analyzed and then merged into

WatchA == <<SchemeToken, "www.youtube.com/", "watch?v=", "a">>
ShortAtA == <<SchemeToken, "youtu.be/", "@", "a">>
HomeUrl == <<SchemeToken, "www.youtube.com/">>

LifeUrls == {WatchA, ShortAtA, HomeUrl}

LifePages == {EmptyPage, BlobPage}

\* ChannelData as a caller holds it (from storage, from an earlier session):
\* at most one video per id, the totals those of its videos
Held(channelName, videos) ==
    [channelId   |-> <<"held">>,
     channelName |-> channelName,
     totalLikes  |-> calculateTotalLikes(videos),
     videoCount  |-> Len(videos),
     videos      |-> videos,
     lastUpdated |-> 0]

HeldVideos ==
    { [id |-> <<"a">>, title |-> <<"Held">>, videoUrl |-> <<>>,
       likeCount |-> JSNum(7)],
      [id |-> <<"b">>, title |-> <<"Held">>, videoUrl |-> <<>>,
       likeCount |-> JSNum(0)],
      [id |-> <<"c">>, title |-> <<"Held">>, videoUrl |-> <<>>,
       likeCount |-> JSNum(1200)] }

HeldAggregates ==
    { Held(name, videos) :
        name \in {<<>>, <<"Bob">>},
        videos \in { v \in SeqsUpTo(HeldVideos, MaxHeld) :
                        \A i, j \in 1..Len(v) : i # j => v[i].id # v[j].id } }

Init ==
    /\ url = <<>> /\ page = EmptyPage
    /\ outcome = <<>> /\ calls = <<>> /\ located = <<>>
    /\ text = <<>> /\ parsed = <<>>
    /\ stored = <<>> /\ existing = <<>> /\ incoming = <<>> /\ merges = 0
    /\ clock = 0
    /\ op = "init"

\* time passes: Date.now() does not run backwards
Tick ==
    /\ clock < MaxClock
    /\ clock' = clock + 1
    /\ UNCHANGED <<parseVars, pageVars, mergeVars, op>>

Merge(newData, tag) ==
    /\ stored # <<>>
    /\ merges < MaxMerges
    /\ existing' = stored
    /\ incoming' = <<newData>>
    /\ stored' = <<mergeChannelData(stored[1], newData, clock)>>
    /\ merges' = merges + 1
    /\ op' = tag

\* an analysis fails: there is nothing to keep or to merge
VisitFails(Urls, Pages) ==
    \E u \in Urls, p \in Pages :
        LET r == analyzeYouTubePage(p, u, clock)
        IN  /\ ~r.result.success
            /\ Analyzed(u, p, r)
            /\ op' = "analyze"
            /\ UNCHANGED mergeVars

\* the first successful analysis creates the aggregate
VisitFirst(Urls, Pages) ==
    \E u \in Urls, p \in Pages :
        LET r == analyzeYouTubePage(p, u, clock)
        IN  /\ stored = <<>>
            /\ r.result.success
            /\ Analyzed(u, p, r)
            /\ stored' = r.result.data
            /\ op' = "keep"
            /\ UNCHANGED <<existing, incoming, merges>>

\* a later successful analysis is merged into the aggregate
VisitMerges(Urls, Pages) ==
    \E u \in Urls, p \in Pages :
        LET r == analyzeYouTubePage(p, u, clock)
        IN  /\ stored # <<>>
            /\ r.result.success
            /\ Analyzed(u, p, r)
            /\ Merge(r.result.data[1], "merge")

\* the analysis result is gone once its handler has returned
NoAnalysis ==
    /\ url' = <<>> /\ page' = EmptyPage /\ outcome' = <<>> /\ calls' = <<>>
    /\ UNCHANGED <<parseVars, located, clock>>

\* the caller merges an aggregate it holds from elsewhere
MergeHeld(Aggregates) == \E h \in Aggregates : Merge(h, "merge") /\ NoAnalysis

\* mergeChannelData(a, a)
MergeSelf == stored # <<>> /\ Merge(stored[1], "self") /\ NoAnalysis

\* the incoming aggregate of the last merge, merged once more
MergeAgain ==
    /\ op \in {"merge", "again"}
    /\ Merge(incoming[1], "again")
    /\ NoAnalysis

Next ==
    \/ VisitFails(LifeUrls, LifePages)
    \/ VisitFirst(LifeUrls, LifePages)
    \/ VisitMerges(LifeUrls, LifePages)
    \/ MergeHeld(HeldAggregates)
    \/ MergeSelf
    \/ MergeAgain

Spec == Init /\ [][Next]_vars

\* ------------------------------------------- the same, as time passes

TimeUrls == {WatchA}

TimePages == {ScenarioPage}

TimeHeld == {Held(<<>>, <<>>), Held(<<"Bob">>, SetToSeq(HeldVideos))}

NextTime ==
    \/ Tick
    \/ VisitFirst(TimeUrls, TimePages)
    \/ VisitMerges(TimeUrls, TimePages)
    \/ MergeHeld(TimeHeld)
    \/ MergeSelf
    \/ MergeAgain

SpecTime == Init /\ [][NextTime]_vars

\* ------------------------------------------------------ the parser alone

ParseAlphabet == {"1", "2", "5", ".", ",", "K", "M", "B", "g", "Infinity"}

\* the inputs of the documented examples
ExampleTexts ==
    { <<"1", ".", "2", "K">>, <<"3", ".", "4", "M">>, <<"5", "0", "0">>,
      <<"g", "a", "r", "b", "a", "g", "e">>, <<"2", ".", "5", "B">>,
      <<"0", ".", "0", "0", "0", "4", "K">>, <<"0", ".", "0", "0", "0", "6", "K">> }

ParseInputs == SeqsUpTo(ParseAlphabet, MaxTextLen) \cup ExampleTexts

InitParse ==
    /\ text \in ParseInputs
    /\ parsed = <<>>
    /\ url = <<>> /\ page = EmptyPage /\ outcome = <<>> /\ calls = <<>>
    /\ located = <<>>
    /\ stored = <<>> /\ existing = <<>> /\ incoming = <<>> /\ merges = 0
    /\ clock = 0
    /\ op = "init"

ParseText ==
    /\ parsed = <<>>
    /\ parsed' = <<parseLikeCountText(text)>>
    /\ op' = "parse"
    /\ UNCHANGED <<text, pageVars, mergeVars, clock>>

NextParse == ParseText

SpecParse == InitParse /\ [][NextParse]_vars

\* ------------------------------------------------------------ C1

\* the sum of the like counts, from the head of the list
RECURSIVE SumLikes(_)
SumLikes(videos) ==
    IF videos = <<>> THEN JSNum(0)
    ELSE JSAdd(Head(videos).likeCount, SumLikes(Tail(videos)))

\* C1: every aggregate of a lineage (the one analyzeYouTubePage returned, and
\* the result of every mergeChannelData after it, whether the incoming videos
\* are none, overlapping or disjoint) has totalLikes equal to the sum of its
\* videos' likeCount and videoCount equal to the number of its videos.
TotalsMatchVideos ==
    stored # <<>> =>
        /\ stored[1].totalLikes = SumLikes(stored[1].videos)
        /\ stored[1].videoCount = Len(stored[1].videos)

\* an aggregate of two videos has been merged with one that holds no video
EmptyMergeHappened ==
    /\ op = "merge"
    /\ incoming[1].videos = <<>>
    /\ Len(stored[1].videos) >= 2

\* ------------------------------------------------------------ C2

Merged == op \in {"merge", "self", "again"}

Ids(videos) == {videos[i].id : i \in 1..Len(videos)}

UniqueIds(videos) ==
    \A i, j \in 1..Len(videos) : videos[i].id = videos[j].id => i = j

\* the last record of videos with this id
RecordOf(videos, id) ==
    videos[CHOOSE i \in 1..Len(videos) :
              /\ videos[i].id = id
              /\ \A j \in 1..Len(videos) : videos[j].id = id => j <= i]

\* the videos whose id is not in ids
RECURSIVE Without(_, _)
Without(videos, ids) ==
    IF videos = <<>> THEN <<>>
    ELSE (IF Head(videos).id \in ids THEN <<>> ELSE <<Head(videos)>>)
         \o Without(Tail(videos), ids)

\* C2: the videos of mergeChannelData(existing, incoming) hold exactly one
\* record for each id of existing.videos or incoming.videos and no other id;
\* the record is the incoming one where incoming has the id, else the existing
\* one; so totalLikes counts the incoming likeCount of an id both carry, not
\* old plus new.
UnionLastWriteWins ==
    Merged =>
        /\ Ids(stored[1].videos)
              = Ids(existing[1].videos) \cup Ids(incoming[1].videos)
        /\ UniqueIds(stored[1].videos)
        /\ \A i \in 1..Len(stored[1].videos) :
              stored[1].videos[i] =
                  IF stored[1].videos[i].id \in Ids(incoming[1].videos)
                  THEN RecordOf(incoming[1].videos, stored[1].videos[i].id)
                  ELSE RecordOf(existing[1].videos, stored[1].videos[i].id)
        /\ stored[1].totalLikes =
              JSAdd(SumLikes(incoming[1].videos),
                    SumLikes(Without(existing[1].videos,
                                     Ids(incoming[1].videos))))

\* the incoming aggregate carried a video the existing one held, with another
\* likeCount
OverwriteHappened ==
    /\ op = "merge"
    /\ \E i \in 1..Len(existing[1].videos), j \in 1..Len(incoming[1].videos) :
          /\ existing[1].videos[i].id = incoming[1].videos[j].id
          /\ existing[1].videos[i].likeCount # incoming[1].videos[j].likeCount

\* ------------------------------------------------------------ C3

Records(videos) == {videos[i] : i \in 1..Len(videos)}

SameContent(a, b) ==
    /\ Records(a.videos) = Records(b.videos)
    /\ Len(a.videos) = Len(b.videos)
    /\ a.totalLikes = b.totalLikes
    /\ a.videoCount = b.videoCount
    /\ a.channelId = b.channelId

\* C3: mergeChannelData(a, a) has the video records, totalLikes, videoCount
\* and channelId of a; and merging the same incoming aggregate a second time
\* gives the videos, totals and channelId that merging it once gave.
MergeIsIdempotent ==
    /\ (op = "self") => SameContent(stored[1], existing[1])
    /\ (op = "again") =>
          /\ SameContent(stored[1], existing[1])
          /\ stored[1].videos = existing[1].videos

\* an aggregate of two videos has been merged with itself
SelfMergeHappened ==
    /\ op = "self"
    /\ existing = incoming
    /\ Len(existing[1].videos) >= 2

\* ------------------------------------------------------------ C4

\* C4: the merged channelName is incoming's when that is non-empty, else
\* existing's, so that an incoming aggregate whose channel name is unknown
\* (one that analyzeYouTubePage built when the channel-name locator returned
\* null included) does not erase a known channel name of existing.
KnownNameKept ==
    (op = "merge") =>
        /\ stored[1].channelName =
              IF incoming[1].channelName # <<>> THEN incoming[1].channelName
              ELSE existing[1].channelName
        /\ ( /\ existing[1].channelName \notin {<<>>, UnknownChannel}
             /\ \/ incoming[1].channelName = <<>>
                \/ outcome # <<>> /\ extractChannelName(page) = <<>> )
           => stored[1].channelName = existing[1].channelName

\* ------------------------------------------------------------ C5

\* C5: for a URL in which extractVideoId finds no id, analyzeYouTubePage
\* returns success false with the reason "Not a video page" and no data,
\* having invoked neither locator nor extractChannelId.
NotVideoPageFailsFirst ==
    (op = "analyze" /\ extractVideoId(url) = <<>>) =>
        /\ ~outcome[1].success
        /\ outcome[1].error = <<NotAVideoPage>>
        /\ outcome[1].data = <<>>
        /\ calls = <<"extractVideoId">>

\* a URL with no video id that new URL() would have rejected has been analyzed
NotVideoPageAnalyzed ==
    /\ op = "analyze"
    /\ extractVideoId(url) = <<>>
    /\ ~UrlParses(url)
    /\ page # EmptyPage

\* ------------------------------------------------------------ C6

\* C6: analyzeYouTubePage returns an outcome for every page and URL and lets
\* no fault reach the caller: a URL that holds a video id but does not parse
\* gives success false with the fault's message and no data; and every
\* outcome has either data and no error, or an error and no data.
NoFaultEscapes ==
    (op = "analyze") =>
        /\ ~outcome[1].escaped
        /\ outcome[1].success
              => (outcome[1].data # <<>> /\ outcome[1].error = <<>>)
        /\ ~outcome[1].success
              => (outcome[1].error # <<>> /\ outcome[1].data = <<>>)
        /\ (extractVideoId(url) # <<>> /\ ~UrlParses(url))
              => (~outcome[1].success /\ outcome[1].error = <<InvalidUrl>>)

\* extractChannelId has thrown inside an analysis
FaultCaught ==
    /\ op = "analyze"
    /\ extractVideoId(url) # <<>>
    /\ ~UrlParses(url)
    /\ calls[Len(calls)] = "extractChannelId"

\* ------------------------------------------------------------ C7

\* none of the three DOM methods finds a count
NothingLocated(p) ==
    DomMethod1(p.dom) = <<>> /\ DomMethod2(p.dom) = <<>> /\ DomMethod3(p.dom) = <<>>

\* C7: for a URL that holds a video id and parses, analyzeYouTubePage returns
\* success with an aggregate of exactly one video, whose id is the extracted
\* id and whose likeCount is what extractLikeCount returned, with totalLikes
\* that likeCount, videoCount 1, and channelId extractChannelId(url) or, when
\* that is null, the video id; when no strategy finds anything the likeCount
\* is 0 and the channelName "Unknown Channel".
OneVideoAggregate ==
    (op = "analyze" /\ extractVideoId(url) # <<>> /\ UrlParses(url)) =>
        /\ outcome[1].success
        /\ Len(outcome[1].data) = 1
        /\ Len(outcome[1].data[1].videos) = 1
        /\ outcome[1].data[1].videos[1].id = extractVideoId(url)
        /\ outcome[1].data[1].videos[1].likeCount = extractLikeCount(page)
        /\ outcome[1].data[1].totalLikes = extractLikeCount(page)
        /\ outcome[1].data[1].videoCount = 1
        /\ outcome[1].data[1].channelId =
              IF extractChannelId(url) # <<>> THEN extractChannelId(url)
              ELSE extractVideoId(url)
        /\ NothingLocated(page)
              => outcome[1].data[1].videos[1].likeCount = JSNum(0)
        /\ (extractChannelName(page) = <<>>)
              => outcome[1].data[1].channelName = UnknownChannel

\* a page where nothing is found has been analyzed under a URL whose channel
\* id is not its video id
NothingFoundStillSucceeds ==
    /\ op = "analyze"
    /\ outcome[1].success
    /\ NothingLocated(page)
    /\ extractChannelName(page) = <<>>
    /\ extractChannelId(url) # <<>>
    /\ outcome[1].data[1].channelId # outcome[1].data[1].videos[1].id

\* ------------------------------------------------------------ C8

\* C8: along a lineage, every mergeChannelData result has the time of the
\* merge as lastUpdated, and that is no earlier than the lastUpdated of the
\* aggregate merged from.
StampNeverDecreases ==
    [][(merges' = merges + 1) =>
          /\ stored'[1].lastUpdated = clock'
          /\ stored'[1].lastUpdated >= stored[1].lastUpdated]_vars

\* a merge made later than the aggregate it merged from
LaterMergeHappened ==
    /\ Merged
    /\ stored[1].lastUpdated > existing[1].lastUpdated
    /\ stored[1].lastUpdated > incoming[1].lastUpdated

\* ------------------------------------------------------------ C9

\* s is digits, or digits with one '.', holding at least one digit
NumericText(s) ==
    LET ip   == DigitPrefix(s)
        rest == Drop(s, Len(ip))
    IN  \/ rest = <<>> /\ ip # <<>>
        \/ /\ rest # <<>> /\ Head(rest) = "."
           /\ DigitPrefix(Tail(rest)) = Tail(rest)
           /\ Len(ip) + Len(Tail(rest)) >= 1

\* the value of a NumericText, as m / 10^d
NumericValue(s) ==
    LET ip   == DigitPrefix(s)
        rest == Drop(s, Len(ip))
        fp   == IF rest = <<>> THEN <<>> ELSE Tail(rest)
    IN  [kind |-> "num", m |-> DigitsValue(ip \o fp), d |-> Len(fp)]

SuffixPower(c) == CASE c = "K" -> 3 [] c = "M" -> 6 [] c = "B" -> 9

\* the cleaned text does not start with a finite number, once a K, M or B of
\* it is set aside
StartsNoNumber(c) ==
    LET body == IF Includes(c, "K") THEN RemoveFirst(c, "K")
                ELSE IF Includes(c, "M") THEN RemoveFirst(c, "M")
                ELSE IF Includes(c, "B") THEN RemoveFirst(c, "B")
                ELSE c
    IN  ~ \/ body # <<>> /\ Head(body) \in DigitChars
          \/ Len(body) >= 2 /\ Head(body) = "." /\ body[2] \in DigitChars

\* C9: parseLikeCountText returns a finite non-negative integer for every
\* input: round(prefix * 1000 / 10^6 / 10^9) for a numeric prefix with a
\* trailing K, M or B, the integer value of a digit string, and 0 for any
\* text that does not parse to a finite number.
ParseCountTotal ==
    op = "parse" =>
        LET r == parsed[1]
            c == CleanText(text)
        IN  /\ IsFinite(r) /\ r.m >= 0
            /\ ( /\ c # <<>>
                 /\ c[Len(c)] \in {"K", "M", "B"}
                 /\ NumericText(SubSeq(c, 1, Len(c) - 1)) )
               => r = RoundScaled(NumericValue(SubSeq(c, 1, Len(c) - 1)),
                                  SuffixPower(c[Len(c)]))
            /\ (c # <<>> /\ DigitPrefix(c) = c) => r = JSNum(DigitsValue(c))
            /\ StartsNoNumber(c) => r = JSNum(0)

\* ------------------------------------------------------------ C10

\* the strategies in the documented order: the four over the global blobs,
\* then the three DOM methods
StrategyChain(p) ==
    << extractFromYtInitialData(p.ytInitialData),
       extractFromYtInitialDataAlternative(p.ytInitialData),
       extractFromYtcfg(p.ytcfg),
       extractFromPlayerResponse(p.ytInitialPlayerResponse),
       DomMethod1(p.dom), DomMethod2(p.dom), DomMethod3(p.dom) >>

\* the value of the first strategy of the chain that succeeds, 0 when none does
FirstOfChain(p) ==
    Const(StrategyChain(p), LAMBDA chain :
        LET hits == {k \in 1..Len(chain) : chain[k] # <<>>}
        IN  IF hits = {} THEN JSNum(0)
            ELSE chain[CHOOSE k \in hits : \A j \in hits : k <= j][1])

\* C10: extractLikeCount returns the value of the first strategy that
\* succeeds in the order known path, recursive key search, config blob,
\* player response, DOM methods 1, 2, 3: a count held by a blob is returned
\* whatever the DOM holds, and 0 only when every strategy fails.
BlobStrategiesFirst ==
    located # <<>> => located[1].likeCount = FirstOfChain(page)

\* ------------------------------------------------------------ C11

\* what each strategy gives when a strategy that throws counts as one that
\* found nothing: the three DOM methods of the like-count locator
IsolatedLikeChain(p) ==
    << IF LikeElementsQuery \in p.throws THEN <<>> ELSE DomMethod1(p.dom),
       IF AllButtonsQuery \in p.throws THEN <<>> ELSE DomMethod2(p.dom),
       IF AllElementsQuery \in p.throws THEN <<>> ELSE DomMethod3(p.dom) >>

\* the names the selectors give, the first selector first
SelectorNames(dom) ==
    SelectSeq([k \in 1..NumSelectors |-> SelectorText(dom, k)],
              LAMBDA name : name # <<>>)

\* the same for the channel-name locator: initial data, player response,
\* DOM selectors
IsolatedNameChain(p) ==
    << IF GetPath(p.ytInitialData, ContentsPath).t = "arr"
       THEN OwnerLoop(GetPath(p.ytInitialData, ContentsPath).v) ELSE <<>>,
       IF Truthy(GetPath(p.ytInitialPlayerResponse, <<"videoDetails", "author">>))
       THEN GetPath(p.ytInitialPlayerResponse, <<"videoDetails", "author">>).v
       ELSE <<>>,
       IF SelectorsQuery \in p.throws \/ SelectorNames(p.dom) = <<>> THEN <<>>
       ELSE SelectorNames(p.dom)[1] >>

\* the first non-empty member of chain, as <<member>>
FirstFound(chain) ==
    LET hits == {k \in 1..Len(chain) : chain[k] # <<>>}
    IN  IF hits = {} THEN <<>>
        ELSE <<chain[CHOOSE k \in hits : \A j \in hits : k <= j]>>

\* C11: a strategy of a locator that raises a fault counts as one that found
\* nothing, and every later strategy of the chain still runs: the like-count
\* locator returns what the first DOM method that neither throws nor fails
\* finds (0 when there is none), and the channel-name locator the first name
\* among initial data, player response and DOM selectors (null when none).
StrategiesIsolated ==
    located # <<>> =>
        /\ located[1].likeCount =
              Const(FirstFound(IsolatedLikeChain(page)), LAMBDA found :
                  IF found = <<>> THEN JSNum(0) ELSE found[1][1])
        /\ located[1].channelName =
              Const(FirstFound(IsolatedNameChain(page)), LAMBDA found :
                  IF found = <<>> THEN <<>> ELSE found[1])

=============================================================================
